---- MODULE Spec2Model ----
(***************************************************************************)
(* A model of dspy/clients/lm.py: the LM client (construction, __call__    *)
(* with its two memoised completion functions, history recording) and the  *)
(* fire-and-forget fine-tuning dispatch.                                   *)
(*                                                                         *)
(* Conventions.                                                            *)
(*   - An optional Python value is a sequence of length <= 1: <<>> is      *)
(*     None (or "argument not given"), <<v>> is the value v.               *)
(*   - A Python dict is a record [ord, val]: ord is the sequence of its    *)
(*     keys in insertion order, val the mapping from key to value.  Two    *)
(*     dicts are equal in Python when their val are equal, whatever ord.   *)
(*   - Floats are counted in tenths: temperature 1.0 is 10.                *)
(***************************************************************************)
EXTENDS Bags, FiniteSets, Integers, Sequences, TLC

VARIABLES
    lm,            \* instance id -> <<>> (not constructed) or <<the LM object's fields>>
    memo,          \* functools.lru_cache tables of the two cached_* functions
    backend,       \* bag of the invocations litellm received (the stub's call count)
    experimental,  \* dspy.settings.experimental
    executors,     \* the ThreadPoolExecutors finetune created, each with its task
    pending,       \* the finetune call that has submitted its task and not yet returned
    last,          \* what the most recent operation did and returned
    ncalls,        \* number of LM.__call__ invocations so far
    threads        \* thread -> where its __call__ stands, for calls made concurrently

vars == <<lm, memo, backend, experimental, executors, pending, last, ncalls, threads>>

(***************************************************************************)
(* Bounds                                                                  *)
(***************************************************************************)
MaxCalls == 2       \* calls in one behaviour of Spec
MaxArgCalls == 2    \* calls in one behaviour of SpecArgs
MaxFinetunes == 2   \* executors created in one behaviour of SpecFinetune
NThreads == 2            \* threads that call one instance concurrently
MaxAfterCalls == 1       \* calls made once every thread has left __call__
MaxOpsCalls == 2         \* calls in one behaviour of SpecOps
MaxOpsFinetunes == 1     \* executors created in one behaviour of SpecOps
MaxSharedCalls == 2      \* calls in one behaviour of SpecShared
MaxCodecCalls == 2       \* calls in one behaviour of SpecCodec

(***************************************************************************)
(* Strings whose characters the code inspects                              *)
(***************************************************************************)
Chars(s) ==
    CASE s = "api_"           -> <<"a", "p", "i", "_">>
      [] s = "o1-"            -> <<"o", "1", "-">>
      [] s = "temperature"    -> <<"t", "e", "m", "p", "e", "r", "a", "t", "u", "r", "e">>
      [] s = "max_tokens"     -> <<"m", "a", "x", "_", "t", "o", "k", "e", "n", "s">>
      [] s = "top_p"          -> <<"t", "o", "p", "_", "p">>
      [] s = "api_key"        -> <<"a", "p", "i", "_", "k", "e", "y">>
      [] s = "api_base"       -> <<"a", "p", "i", "_", "b", "a", "s", "e">>
      [] s = "cache"          -> <<"c", "a", "c", "h", "e">>
      [] s = "stop"           -> <<"s", "t", "o", "p">>
      [] s = "apikey"         -> <<"a", "p", "i", "k", "e", "y">>
      [] s = "openai/o1-mini" -> <<"o", "p", "e", "n", "a", "i", "/", "o", "1", "-", "m", "i", "n", "i">>
      [] s = "o1-preview"     -> <<"o", "1", "-", "p", "r", "e", "v", "i", "e", "w">>
      [] s = "openai/gpt-4o"  -> <<"o", "p", "e", "n", "a", "i", "/", "g", "p", "t", "-", "4", "o">>
      [] s = "anyscale/llama" -> <<"a", "n", "y", "s", "c", "a", "l", "e", "/", "l", "l", "a", "m", "a">>
      [] s = "ollama/o1"      -> <<"o", "l", "l", "a", "m", "a", "/", "o", "1">>

\* str.startswith
startswith(s, prefix) ==
    LET a == Chars(s)
        p == Chars(prefix)
    IN  /\ Len(p) <= Len(a)
        /\ SubSeq(a, 1, Len(p)) = p

\* `sub in s` for strings
contains(s, sub) ==
    LET a == Chars(s)
        p == Chars(sub)
    IN  \E i \in 0..(Len(a) - Len(p)) : SubSeq(a, i + 1, i + Len(p)) = p

(***************************************************************************)
(* Python dicts                                                            *)
(***************************************************************************)
EmptyDict == [ord |-> <<>>, val |-> <<>>]

Keys(d) == {d.ord[i] : i \in 1..Len(d.ord)}

\* d[k] = v: a new key goes last, an existing key keeps its place
SetItem(d, k, v) ==
    [ord |-> IF k \in Keys(d) THEN d.ord ELSE Append(d.ord, k),
     val |-> [x \in Keys(d) \cup {k} |-> IF x = k THEN v ELSE d.val[x]]]

\* the dict built from a sequence of <<key, value>> keyword arguments
RECURSIVE DictOf(_)
DictOf(pairs) ==
    IF pairs = <<>> THEN EmptyDict
    ELSE LET n == Len(pairs)
         IN  SetItem(DictOf(SubSeq(pairs, 1, n - 1)), pairs[n][1], pairs[n][2])

\* {**a, **b}
RECURSIVE Merge(_, _)
\* Merge in which a key of a keeps a's value: the defaults win.
RECURSIVE Merge_DefaultsWin(_, _)
Merge_DefaultsWin(a, b) ==
    IF b.ord = <<>> THEN a
    ELSE LET n == Len(b.ord)
             k == b.ord[n]
             rest == [ord |-> SubSeq(b.ord, 1, n - 1),
                      val |-> [x \in Keys(b) \ {k} |-> b.val[x]]]
             m == Merge_DefaultsWin(a, rest)
         IN  IF k \in Keys(m) THEN m ELSE SetItem(m, k, b.val[k])


Merge(a, b) ==
    IF b.ord = <<>> THEN a
    ELSE LET n == Len(b.ord)
             k == b.ord[n]
             rest == [ord |-> SubSeq(b.ord, 1, n - 1),
                      val |-> [x \in Keys(b) \ {k} |-> b.val[x]]]
         IN  SetItem(Merge(a, rest), k, b.val[k])

\* Scrub with only the key "api_key" removed.
Scrub_OnlyApiKey(kwargs) ==
    LET keep(k) == k # "api_key"
    IN  [ord |-> SelectSeq(kwargs.ord, keep),
         val |-> [x \in {k \in Keys(kwargs) : keep(k)} |-> kwargs.val[x]]]

\* {k: v for k, v in kwargs.items() if not k.startswith("api_")}
Scrub(kwargs) ==
    LET keep(k) == ~startswith(k, "api_")
    IN  [ord |-> SelectSeq(kwargs.ord, keep),
         val |-> [x \in {k \in Keys(kwargs) : keep(k)} |-> kwargs.val[x]]]

(***************************************************************************)
(* Serialisation of the request                                            *)
(***************************************************************************)
\* ujson.dumps(dict(model=..., messages=..., **kwargs)): the members of the
\* JSON object in the dict's insertion order, model first, messages second.
\* A parameter value is a scalar, or under the keys of SequenceKeys a Python
\* sequence [py |-> "list" or "tuple", items |-> its items in order].  JSON
\* has one array for both: the encoder writes the items, the decoder makes a
\* list of them.
SequenceKeys == {"stop"}
JsonValue(key, value) ==
    IF key \in SequenceKeys THEN [items |-> value.items] ELSE value
PyValue(key, json) ==
    IF key \in SequenceKeys THEN [py |-> "list", items |-> json.items] ELSE json

\* dumps without the model's name.
dumps_ModelLess(model, messages, kwargs) ==
    <<<<"model", "">>, <<"messages", messages>>>>
        \o [i \in 1..Len(kwargs.ord) |->
              <<kwargs.ord[i], JsonValue(kwargs.ord[i], kwargs.val[kwargs.ord[i]])>>]

dumps(model, messages, kwargs) ==
    <<<<"model", model>>, <<"messages", messages>>>>
        \o [i \in 1..Len(kwargs.ord) |->
              <<kwargs.ord[i], JsonValue(kwargs.ord[i], kwargs.val[kwargs.ord[i]])>>]

\* ujson.loads of a serialised request: the dict with the members in text order
loads(request) ==
    [model |-> request[1][2],
     messages |-> request[2][2],
     kwargs |-> DictOf([i \in 1..(Len(request) - 2) |->
                          <<request[i + 2][1],
                            PyValue(request[i + 2][1], request[i + 2][2])>>])]

(***************************************************************************)
(* LM.__init__                                                             *)
(***************************************************************************)
O1MinTokens == 5000    \* max_tokens >= 5000
O1Temperature == 10    \* temperature == 1.0, in tenths

Threads == 1..NThreads
LMIds == {"lm1", "lm2"}
FirstLM == {"lm1"}    \* the instance of the specifications about one instance
ModelTypes == {"chat", "text"}

\* LMInit with max_tokens > 5000 required.
LMInit_Above(model, model_type, temperature, max_tokens, cache, extra) ==
    [self |-> [model |-> model,
               model_type |-> model_type,
               cache |-> cache,
               kwargs |-> DictOf(<<<<"temperature", temperature>>,
                                   <<"max_tokens", max_tokens>>>> \o extra),
               history |-> <<>>],
     raised |-> /\ contains(model, "o1-")
                /\ ~(max_tokens > O1MinTokens /\ temperature = O1Temperature)]

\* The fields __init__ assigns, and whether its assertion fails.
LMInit(model, model_type, temperature, max_tokens, cache, extra) ==
    [self |-> [model |-> model,
               model_type |-> model_type,
               cache |-> cache,
               kwargs |-> DictOf(<<<<"temperature", temperature>>,
                                   <<"max_tokens", max_tokens>>>> \o extra),
               history |-> <<>>],
     raised |-> /\ contains(model, "o1-")
                /\ ~(max_tokens >= O1MinTokens /\ temperature = O1Temperature)]

\* lm = LM(model, model_type, temperature, max_tokens, cache, **extra)
New(id, model, model_type, temperature, max_tokens, cache, extra) ==
    LET r == LMInit(model, model_type, temperature, max_tokens, cache, extra)
    IN  /\ lm[id] = <<>>
        /\ lm' = IF r.raised THEN lm ELSE [lm EXCEPT ![id] = <<r.self>>]
        /\ last' = [op |-> "init", id |-> id, raised |-> r.raised,
                    model |-> model, temperature |-> temperature,
                    max_tokens |-> max_tokens]
        /\ UNCHANGED <<memo, backend, experimental, executors, pending, ncalls, threads>>

(***************************************************************************)
(* The completion functions                                                *)
(***************************************************************************)
CacheOn == [no_cache |-> FALSE, no_store |-> FALSE]
\* CacheOff with the store left on.
CacheOff_StoreOn == [no_cache |-> TRUE, no_store |-> FALSE]
CacheOff == [no_cache |-> TRUE, no_store |-> TRUE]

\* litellm_completion(request, cache): one invocation of litellm.completion,
\* which raises or returns outcome.response.  `sent` is what the backend
\* received, with whether it returned.
litellm_completion(request, cache, outcome) ==
    [sent |-> <<[fn |-> "completion", cache |-> cache, args |-> loads(request),
                 returned |-> ~outcome.raises]>>,
     raised |-> outcome.raises,
     response |-> outcome.response]

\* litellm_text_completion(request, cache): the prompt is joined from the
\* messages' contents (str.join raises on a None content) before the one
\* invocation of litellm.text_completion.
litellm_text_completion(request, cache, outcome) ==
    LET messages == loads(request).messages
    IN  IF \E i \in 1..Len(messages) : messages[i].content = <<>>
        THEN [sent |-> <<>>, raised |-> TRUE, response |-> outcome.response]
        ELSE [sent |-> <<[fn |-> "text_completion", cache |-> cache,
                          args |-> loads(request), returned |-> ~outcome.raises]>>,
              raised |-> outcome.raises,
              response |-> outcome.response]

\* lru_hit that never finds the key.
lru_hit_Never(table, request) == FALSE

\* the lookup of functools.lru_cache
lru_hit(table, request) == request \in DOMAIN table

\* cache[key] = result of functools.lru_cache: the latest store wins
lru_store(table, request, response) ==
    [k \in (DOMAIN table) \cup {request} |->
        IF k = request THEN response ELSE table[k]]

\* lru_cache that stores the result of a call that raised.
lru_cache_StoreOnRaise(table, request, r) ==
    IF lru_hit(table, request)
    THEN [sent |-> <<>>, raised |-> FALSE, response |-> table[request], table |-> table]
    ELSE [sent |-> r.sent, raised |-> r.raised, response |-> r.response,
          table |-> lru_store(table, request, r.response)]

\* lru_cache that never answers from its table.
lru_cache_NoLookup(table, request, r) ==
    [sent |-> r.sent, raised |-> r.raised, response |-> r.response,
     table |-> IF r.raised THEN table
               ELSE [k \in (DOMAIN table) \cup {request} |->
                        IF k = request THEN r.response ELSE table[k]]]

\* functools.lru_cache(maxsize=None) around a call whose result is r: a key
\* already in the table is answered from it, a new key's result is stored
\* unless the call raised.
lru_cache(table, request, r) ==
    IF lru_hit(table, request)
    THEN [sent |-> <<>>, raised |-> FALSE, response |-> table[request], table |-> table]
    ELSE [sent |-> r.sent, raised |-> r.raised, response |-> r.response,
          table |-> IF r.raised THEN table
                    ELSE lru_store(table, request, r.response)]

cached_litellm_completion(request, outcome) ==
    lru_cache(memo.chat, request, litellm_completion(request, CacheOn, outcome))

\* cached_litellm_text_completion answering from the chat function's table.
cached_litellm_text_completion_ChatTable(request, outcome) ==
    lru_cache(memo.chat, request, litellm_text_completion(request, CacheOn, outcome))

cached_litellm_text_completion(request, outcome) ==
    lru_cache(memo.text, request, litellm_text_completion(request, CacheOn, outcome))

(***************************************************************************)
(* LM.__call__                                                             *)
(***************************************************************************)
\* Python truthiness of an optional list: None and [] are falsy.
Truthy(opt) == opt # <<>> /\ opt[1] # <<>>

\* EffectiveMessages as `messages if messages is not None else [...]`.
EffectiveMessages_NotNone(prompt, messages) ==
    IF messages # <<>> THEN messages[1]
    ELSE <<[role |-> "user", content |-> prompt]>>

\* messages or [{"role": "user", "content": prompt}]
EffectiveMessages(prompt, messages) ==
    IF Truthy(messages) THEN messages[1]
    ELSE <<[role |-> "user", content |-> prompt]>>

\* c.message.content if hasattr(c, "message") else c["text"]: raises when the
\* choice has neither
ChoiceRaises(c) == c.message = <<>> /\ c.text = <<>>
ChoiceText(c) == IF c.message # <<>> THEN c.message[1] ELSE c.text[1]

OutputsRaise(response) ==
    \E i \in 1..Len(response.choices) : ChoiceRaises(response.choices[i])
Outputs(response) ==
    [i \in 1..Len(response.choices) |-> ChoiceText(response.choices[i])]

\* dict(response["usage"]) raises when the response has no usage
UsageRaises(response) == response.usage = <<>>

\* response.get("_hidden_params", {}).get("response_cost")
Cost(response) ==
    IF response.hidden_params = <<>> THEN <<>>
    ELSE response.hidden_params[1].response_cost

\* The history entry of lines 67-70.
Entry(prompt, messages, kwargs, response) ==
    [prompt |-> prompt,
     messages |-> messages,
     kwargs |-> Scrub(kwargs),
     response |-> response,
     outputs |-> Outputs(response),
     usage |-> response.usage[1],
     cost |-> Cost(response)]

\* CallRaises with the completion function's exception swallowed.
CallRaises_Swallowed(r) ==
    OutputsRaise(r.response) \/ UsageRaises(r.response)

\* An exception of the completion function, of the extraction of the outputs
\* or of the usage leaves __call__ before line 71.
CallRaises(r) ==
    r.raised \/ OutputsRaise(r.response) \/ UsageRaises(r.response)

\* HistoryAppend that keeps the new entry alone.
HistoryAppend_Only(history, entry) == <<entry>>

\* HistoryAppend that puts the entry in front.
HistoryAppend_Front(history, entry) == <<entry>> \o history

\* self.history.append(entry): one atomic list operation
HistoryAppend(history, entry) == Append(history, entry)

\* Completion that takes the cached function whatever the cache flag.
Completion_AlwaysCached(model_type, cache, request, outcome) ==
    IF model_type = "chat"
    THEN cached_litellm_completion(request, outcome)
    ELSE cached_litellm_text_completion(request, outcome)

\* Lines 60-63: the completion function the model type and the cache flag
\* select, applied to the request; `table` is the memo table of the model
\* type as the call leaves it.
Completion(model_type, cache, request, outcome) ==
    IF model_type = "chat"
    THEN IF cache
         THEN cached_litellm_completion(request, outcome)
         ELSE litellm_completion(request, CacheOff, outcome) @@ [table |-> memo.chat]
    ELSE IF cache
         THEN cached_litellm_text_completion(request, outcome)
         ELSE litellm_text_completion(request, CacheOff, outcome) @@ [table |-> memo.text]

\* kwargs.pop("cache", self.cache) on the call's keywords: the value of the
\* cache keyword if it was given, and the keywords without it.
PopCache(keywords) ==
    [cacheArg |-> IF \E i \in 1..Len(keywords) : keywords[i][1] = "cache"
                  THEN <<(CHOOSE p \in {keywords[i] : i \in 1..Len(keywords)} :
                             p[1] = "cache")[2]>>
                  ELSE <<>>,
     overrides |-> SelectSeq(keywords, LAMBDA p : p[1] # "cache")]

\* lm(prompt, messages, cache=..., **overrides), where the backend, if it is
\* reached, behaves as `outcome` says.
Call(id, prompt, messagesArg, cacheArg, overrides, outcome) ==
    /\ lm[id] # <<>>
    /\ LET self == lm[id][1]
           cache == IF cacheArg = <<>> THEN self.cache ELSE cacheArg[1]
           messages == EffectiveMessages(prompt, messagesArg)
           kwargs == Merge(self.kwargs, DictOf(overrides))
           request == dumps(self.model, messages, kwargs)
           r == Completion(self.model_type, cache, request, outcome)
           raised == CallRaises(r)
       IN  /\ memo' = IF self.model_type = "chat"
                      THEN [memo EXCEPT !.chat = r.table]
                      ELSE [memo EXCEPT !.text = r.table]
           /\ backend' = IF r.sent = <<>> THEN backend
                         ELSE backend (+) SetToBag({r.sent[1]})
           /\ lm' = IF raised THEN lm
                    ELSE [lm EXCEPT ![id] =
                            <<[self EXCEPT !.history =
                                 HistoryAppend(@, Entry(prompt, messages, kwargs, r.response))]>>]
           /\ last' = [op |-> "call", id |-> id, raised |-> raised,
                       prompt |-> prompt, messagesArg |-> messagesArg,
                       cacheArg |-> cacheArg, overrides |-> overrides,
                       model |-> self.model, model_type |-> self.model_type,
                       cache |-> cache, messages |-> messages, kwargs |-> kwargs,
                       request |-> request, sent |-> r.sent,
                       response |-> IF r.raised THEN <<>> ELSE <<r.response>>,
                       ret |-> IF raised THEN <<>> ELSE <<Outputs(r.response)>>]
    /\ ncalls' = ncalls + 1
    /\ UNCHANGED <<experimental, executors, pending, threads>>

\* lm(prompt, messages, **keywords), the cache keyword among the keywords.
CallKeywords(id, prompt, messagesArg, keywords, outcome) ==
    Call(id, prompt, messagesArg, PopCache(keywords).cacheArg,
         PopCache(keywords).overrides, outcome)

(***************************************************************************)
(* LM.__call__ on several threads                                          *)
(***************************************************************************)
\* A call on a thread is three steps, and other threads run between them:
\* lines 55-63 up to the lookup in the cached function's table, the backend
\* invocation with the store of its result, and lines 64-71.
Idle == [pc |-> "idle", id |-> "none", prompt |-> <<>>, messages |-> <<>>,
         kwargs |-> EmptyDict, model_type |-> "none", cache |-> FALSE,
         request |-> <<>>, response |-> <<>>, issued |-> 0, obtained |-> 0]

\* the threads that have entered __call__, and those that hold a response
Issued == {u \in Threads : threads[u].issued > 0}
Obtained == {u \in Threads : threads[u].obtained > 0}

\* Thread t enters lm(prompt, cache=...) and reaches the completion function.
\* The threads are numbered in the order in which they enter.
ThreadBegin(t, id, prompt, cacheArg) ==
    /\ threads[t].pc = "idle"
    /\ \A u \in Threads : u < t => threads[u].pc # "idle"
    /\ lm[id] # <<>>
    /\ LET self == lm[id][1]
           cache == IF cacheArg = <<>> THEN self.cache ELSE cacheArg[1]
           messages == EffectiveMessages(prompt, <<>>)
           kwargs == Merge(self.kwargs, EmptyDict)
           request == dumps(self.model, messages, kwargs)
           table == IF self.model_type = "chat" THEN memo.chat ELSE memo.text
           hit == cache /\ lru_hit(table, request)
       IN  threads' = [threads EXCEPT ![t] =
                         [pc |-> IF hit THEN "got" ELSE "backend",
                          id |-> id, prompt |-> prompt, messages |-> messages,
                          kwargs |-> kwargs, model_type |-> self.model_type,
                          cache |-> cache, request |-> request,
                          response |-> IF hit THEN <<table[request]>> ELSE <<>>,
                          issued |-> Cardinality(Issued) + 1,
                          obtained |-> IF hit THEN Cardinality(Obtained) + 1 ELSE 0]]
    /\ UNCHANGED <<lm, memo, backend, experimental, executors, pending, last, ncalls>>

\* The backend invocation of thread t raises or returns, and the cached
\* function stores what it returned.
ThreadBackend(t, outcome) ==
    /\ threads[t].pc = "backend"
    /\ LET th == threads[t]
           directive == IF th.cache THEN CacheOn ELSE CacheOff
           r == IF th.model_type = "chat"
                THEN litellm_completion(th.request, directive, outcome)
                ELSE litellm_text_completion(th.request, directive, outcome)
       IN  /\ backend' = IF r.sent = <<>> THEN backend
                         ELSE backend (+) SetToBag({r.sent[1]})
           /\ memo' = IF r.raised \/ ~th.cache THEN memo
                      ELSE IF th.model_type = "chat"
                           THEN [memo EXCEPT !.chat = lru_store(@, th.request, r.response)]
                           ELSE [memo EXCEPT !.text = lru_store(@, th.request, r.response)]
           /\ threads' = [threads EXCEPT ![t] =
                            IF r.raised THEN [th EXCEPT !.pc = "failed"]
                            ELSE [th EXCEPT !.pc = "got",
                                            !.response = <<r.response>>,
                                            !.obtained = Cardinality(Obtained) + 1]]
    /\ UNCHANGED <<lm, experimental, executors, pending, last, ncalls>>

\* Thread t runs lines 64-71 on the response it holds.
ThreadFinish(t) ==
    /\ threads[t].pc = "got"
    /\ LET th == threads[t]
           self == lm[th.id][1]
           response == th.response[1]
           raised == OutputsRaise(response) \/ UsageRaises(response)
       IN  /\ lm' = IF raised THEN lm
                    ELSE [lm EXCEPT ![th.id] =
                            <<[self EXCEPT !.history =
                                 HistoryAppend(@, Entry(th.prompt, th.messages,
                                                        th.kwargs, response))]>>]
           /\ threads' = [threads EXCEPT ![t].pc = IF raised THEN "failed" ELSE "done"]
    /\ UNCHANGED <<memo, backend, experimental, executors, pending, last, ncalls>>

(***************************************************************************)
(* LM.inspect_history, LM.launch, LM.kill                                  *)
(***************************************************************************)
\* seq[start:] of Python: a negative start counts from the end, and the
\* start is clamped to the list
PySliceFrom(seq, start) ==
    LET from == IF start < 0
                THEN (IF Len(seq) + start < 0 THEN 0 ELSE Len(seq) + start)
                ELSE (IF start > Len(seq) THEN Len(seq) ELSE start)
    IN  SubSeq(seq, from + 1, Len(seq))

\* str.capitalize on the roles
Capitalize(role) ==
    CASE role = "user" -> "User"
      [] role = "system" -> "System"
      [] role = "assistant" -> "Assistant"
      [] OTHER -> role

\* item["messages"] or [{"role": "user", "content": item['prompt']}]
ItemMessages(item) ==
    IF item.messages # <<>> THEN item.messages
    ELSE <<[role |-> "user", content |-> item.prompt]>>

\* msg['content'].strip() raises on a None content, outputs[0] on no output
RenderRaises(item) ==
    \/ \E i \in 1..Len(ItemMessages(item)) : ItemMessages(item)[i].content = <<>>
    \/ item.outputs = <<>>

\* The transcript printed for one entry: each message under its capitalised
\* role, the first output, and the number of other completions.
Render(item) ==
    [messages |-> [i \in 1..Len(ItemMessages(item)) |->
                     [role |-> Capitalize(ItemMessages(item)[i].role),
                      content |-> ItemMessages(item)[i].content[1]]],
     response |-> item.outputs[1],
     others |-> Len(item.outputs) - 1]

\* _inspect_history(lm, n): the transcripts of lm.history[-n:] in list order,
\* up to the first entry whose rendering raises.
Inspect(history, n) ==
    LET items == PySliceFrom(history, 0 - n)
        bad == {i \in 1..Len(items) : RenderRaises(items[i])}
        stop == IF bad = {} THEN Len(items) + 1
                ELSE CHOOSE i \in bad : \A j \in bad : i <= j
    IN  [shown |-> [i \in 1..(stop - 1) |-> Render(items[i])],
         raised |-> bad # {}]

\* lm.inspect_history(n)
InspectHistory(id, n) ==
    /\ lm[id] # <<>>
    /\ last' = [op |-> "inspect_history", id |-> id,
                raised |-> Inspect(lm[id][1].history, n).raised,
                n |-> n, shown |-> Inspect(lm[id][1].history, n).shown]
    /\ UNCHANGED <<lm, memo, backend, experimental, executors, pending, ncalls, threads>>

\* dspy.clients.self_hosted.is_self_hosted_model: the models served by a
\* local process.
SelfHostedFamily == {"ollama/o1"}
is_self_hosted_model(model) == model \in SelfHostedFamily

\* lm.launch(): self_hosted_model_launch(self), whose body is `pass`, for a
\* self-hosted model; nothing otherwise.
Launch(id) ==
    /\ lm[id] # <<>>
    /\ last' = [op |-> "launch", id |-> id, raised |-> FALSE,
                delegated |-> is_self_hosted_model(lm[id][1].model)]
    /\ UNCHANGED <<lm, memo, backend, experimental, executors, pending, ncalls, threads>>

\* lm.kill(): self_hosted_model_kill(self), whose body is `pass`, for a
\* self-hosted model; nothing otherwise.
Kill(id) ==
    /\ lm[id] # <<>>
    /\ last' = [op |-> "kill", id |-> id, raised |-> FALSE,
                delegated |-> is_self_hosted_model(lm[id][1].model)]
    /\ UNCHANGED <<lm, memo, backend, experimental, executors, pending, ncalls, threads>>

(***************************************************************************)
(* LM.finetune                                                             *)
(***************************************************************************)
\* dspy.clients.openai.is_openai_model and dspy.clients.anyscale.is_anyscale_model:
\* the provider families a model identifier is matched against.
OpenAIFamily == {"openai/o1-mini", "o1-preview", "openai/gpt-4o"}
AnyScaleFamily == {"anyscale/llama"}
is_openai_model(model) == model \in OpenAIFamily
is_anyscale_model(model) == model \in AnyScaleFamily

\* dspy.settings.experimental = value
SetExperimental(value) ==
    /\ pending = <<>>
    /\ experimental # value
    /\ experimental' = value
    /\ last' = [op |-> "settings", id |-> "none", raised |-> FALSE]
    /\ UNCHANGED <<lm, memo, backend, executors, pending, ncalls, threads>>

\* Lines 98-106: the fine-tuning function and a new job handle of the
\* model's provider; <<>> for both when no provider matches.  A new handle
\* is a new object: it is told apart by the number of handles made before.
FinetuneLookup(model) ==
    IF is_openai_model(model)
    THEN [finetune_function |-> <<"finetune_openai">>,
          finetune_job |-> <<[cls |-> "FinetuneJobOpenAI", n |-> Len(executors) + 1]>>]
    ELSE IF is_anyscale_model(model)
    THEN [finetune_function |-> <<"finetune_anyscale">>,
          finetune_job |-> <<[cls |-> "FinetuneJobAnyScale", n |-> Len(executors) + 1]>>]
    ELSE [finetune_function |-> <<>>, finetune_job |-> <<>>]

\* FinetuneError with the provider lookup checked before the flag.
FinetuneError_LookupFirst(found) ==
    IF found.finetune_function = <<>> \/ found.finetune_job = <<>> THEN "ValueError"
    ELSE IF ~experimental THEN "AssertionError"
    ELSE "none"

\* Lines 95 and 109-111: the exception finetune raises before it dispatches.
FinetuneError(found) ==
    IF ~experimental THEN "AssertionError"
    ELSE IF found.finetune_function = <<>> \/ found.finetune_job = <<>> THEN "ValueError"
    ELSE "none"

\* lm.finetune(message_completion_pairs, config) up to and including
\* executor.submit: the assertion, the lookup, the ValueError, and a new
\* one-worker executor holding the one submitted task.
FinetuneCall(id, message_completion_pairs, config) ==
    /\ lm[id] # <<>>
    /\ pending = <<>>
    /\ LET self == lm[id][1]
           found == FinetuneLookup(self.model)
           error == FinetuneError(found)
       IN  IF error # "none"
           THEN /\ last' = [op |-> "finetune", id |-> id, raised |-> TRUE,
                            error |-> error, model |-> self.model,
                            experimental |-> experimental]
                /\ UNCHANGED <<executors, pending>>
           ELSE /\ executors' = Append(executors,
                       [max_workers |-> 1,
                        task |-> [fn |-> found.finetune_function[1],
                                  job |-> found.finetune_job[1],
                                  model |-> self.model,
                                  message_completion_pairs |-> message_completion_pairs,
                                  config |-> config],
                        state |-> "queued"])
                /\ pending' = <<[id |-> id, finetune_job |-> found.finetune_job[1]]>>
                /\ last' = [op |-> "submit", id |-> id, raised |-> FALSE,
                            message_completion_pairs |-> message_completion_pairs,
                            config |-> config]
    /\ UNCHANGED <<lm, memo, backend, experimental, ncalls, threads>>

\* FinetuneReturn with shutdown(wait=True): it waits for the task to end.
FinetuneReturn_Wait ==
    /\ pending # <<>>
    /\ \A i \in 1..Len(executors) :
          executors[i].task.job = pending[1].finetune_job
              => executors[i].state \in {"done", "failed"}
    /\ pending' = <<>>
    /\ last' = [op |-> "finetune", id |-> pending[1].id, raised |-> FALSE,
                error |-> "none", model |-> lm[pending[1].id][1].model,
                experimental |-> experimental,
                ret |-> pending[1].finetune_job]
    /\ UNCHANGED <<lm, memo, backend, experimental, executors, ncalls, threads>>

\* FinetuneReturn as `executor.submit(...).result()` would make it: it waits
\* for the task and re-raises the task's exception.
FinetuneReturn_Result ==
    /\ pending # <<>>
    /\ \A i \in 1..Len(executors) :
          executors[i].task.job = pending[1].finetune_job
              => executors[i].state \in {"done", "failed"}
    /\ pending' = <<>>
    /\ last' = [op |-> "finetune", id |-> pending[1].id,
                raised |-> \E i \in 1..Len(executors) :
                              /\ executors[i].task.job = pending[1].finetune_job
                              /\ executors[i].state = "failed",
                error |-> "none", model |-> lm[pending[1].id][1].model,
                experimental |-> experimental,
                ret |-> pending[1].finetune_job]
    /\ UNCHANGED <<lm, memo, backend, experimental, executors, ncalls, threads>>

\* executor.shutdown(wait=False); return finetune_job
FinetuneReturn ==
    /\ pending # <<>>
    /\ pending' = <<>>
    /\ last' = [op |-> "finetune", id |-> pending[1].id, raised |-> FALSE,
                error |-> "none", model |-> lm[pending[1].id][1].model,
                experimental |-> experimental,
                ret |-> pending[1].finetune_job]
    /\ UNCHANGED <<lm, memo, backend, experimental, executors, ncalls, threads>>

\* The executor's single worker thread takes the submitted task.
WorkerStart(i) ==
    /\ executors[i].state = "queued"
    /\ executors' = [executors EXCEPT ![i].state = "running"]
    /\ UNCHANGED <<lm, memo, backend, experimental, pending, last, ncalls, threads>>

\* The task returns or raises in the worker thread; either way the outcome
\* stays with the executor's future and the job handle.
WorkerFinish(i, ok) ==
    /\ executors[i].state = "running"
    /\ executors' = [executors EXCEPT ![i].state = IF ok THEN "done" ELSE "failed"]
    /\ UNCHANGED <<lm, memo, backend, experimental, pending, last, ncalls, threads>>

(***************************************************************************)
(* Inputs                                                                  *)
(***************************************************************************)
Models == {"openai/o1-mini", "o1-preview", "openai/gpt-4o", "anyscale/llama", "ollama/o1"}
Temperatures == {0, 7, 10}
TokenLimits == {1000, 4999, 5000, 5001}
ExtraArgs == {<<>>, <<<<"api_base", 2>>>>}

Prompts == {<<>>, <<"2+2=">>}
MessageArgs == {<<>>, <<<<>>>>, <<<<[role |-> "user", content |-> <<"hi">>]>>>>}
CacheArgs == {<<>>, <<TRUE>>, <<FALSE>>}
OverrideArgs == {<<>>,
                 <<<<"top_p", 9>>, <<"api_key", 1>>>>,
                 <<<<"api_key", 1>>, <<"top_p", 9>>>>}

RChat == [choices |-> <<[message |-> <<"4">>, text |-> <<>>]>>,
          usage |-> <<12>>,
          hidden_params |-> <<[response_cost |-> <<3>>]>>]
RText == [choices |-> <<[message |-> <<>>, text |-> <<"4">>],
                        [message |-> <<>>, text |-> <<"four">>]>>,
          usage |-> <<12>>,
          hidden_params |-> <<>>]
RNoChoiceText == [choices |-> <<[message |-> <<>>, text |-> <<>>]>>,
                  usage |-> <<12>>,
                  hidden_params |-> <<>>]
RNoUsage == [choices |-> <<[message |-> <<"4">>, text |-> <<>>]>>,
             usage |-> <<>>,
             hidden_params |-> <<>>]
BackendRaises == [raises |-> TRUE, response |-> RChat]
Returns(response) == [raises |-> FALSE, response |-> response]

\* what the backend may do on the calls of Spec, and on those of SpecArgs
Outcomes == {BackendRaises, Returns(RChat), Returns(RText)}
ArgOutcomes == Outcomes \cup {Returns(RNoChoiceText), Returns(RNoUsage)}

(***************************************************************************)
(* Specifications                                                          *)
(***************************************************************************)
Init ==
    /\ lm = [id \in LMIds |-> <<>>]
    /\ memo = [chat |-> <<>>, text |-> <<>>]
    /\ backend = EmptyBag
    /\ experimental = FALSE
    /\ executors = <<>>
    /\ pending = <<>>
    /\ last = [op |-> "none", id |-> "none", raised |-> FALSE]
    /\ ncalls = 0
    /\ threads = [t \in Threads |-> Idle]

\* SpecNew: construction alone, over every model, temperature and token limit.
NewAny ==
    \E id \in FirstLM, model \in Models, model_type \in ModelTypes,
       temperature \in Temperatures, max_tokens \in TokenLimits,
       cache \in BOOLEAN, extra \in ExtraArgs :
        New(id, model, model_type, temperature, max_tokens, cache, extra)

NextNew == NewAny
SpecNew == Init /\ [][NextNew]_vars

\* An instance of one model with the default sampling parameters.
NewDefault ==
    \E id \in FirstLM, model_type \in ModelTypes, cache \in BOOLEAN, extra \in ExtraArgs :
        New(id, "openai/gpt-4o", model_type, 0, 1000, cache, extra)

\* Spec: calls with one prompt, every cache argument and every override.
CallAny ==
    /\ ncalls < MaxCalls
    /\ \E id \in FirstLM, cacheArg \in CacheArgs, overrides \in OverrideArgs,
          outcome \in Outcomes :
           Call(id, <<"2+2=">>, <<>>, cacheArg, overrides, outcome)

Next == NewDefault \/ CallAny
Spec == Init /\ [][Next]_vars

\* SpecArgs: calls with every combination of prompt and messages, and every
\* way the call can fail.
CallArgs ==
    /\ ncalls < MaxArgCalls
    /\ \E id \in FirstLM, prompt \in Prompts, messagesArg \in MessageArgs,
          outcome \in ArgOutcomes :
           Call(id, prompt, messagesArg, <<>>, <<>>, outcome)

NextArgs == NewDefault \/ CallArgs
SpecArgs == Init /\ [][NextArgs]_vars

\* SpecFinetune: instances of every model (with sampling parameters every
\* model accepts), the experimental flag, fine-tuning and the workers.
PairArgs == {<<>>, <<[prompt |-> "2+2=", completion |-> "4"]>>}
ConfigArgs == {EmptyDict, DictOf(<<<<"n_epochs", 3>>>>)}

NewTunable ==
    \E id \in FirstLM, model \in Models :
        New(id, model, "chat", O1Temperature, O1MinTokens, TRUE, <<>>)

SetExperimentalAny == \E value \in BOOLEAN : SetExperimental(value)

FinetuneAny ==
    /\ Len(executors) < MaxFinetunes
    /\ \E id \in FirstLM, pairs \in PairArgs, config \in ConfigArgs :
           FinetuneCall(id, pairs, config)

WorkerStep ==
    \E i \in 1..Len(executors) :
        \/ WorkerStart(i)
        \/ \E ok \in BOOLEAN : WorkerFinish(i, ok)

NextFinetune ==
    \/ NewTunable
    \/ SetExperimentalAny
    \/ FinetuneAny
    \/ FinetuneReturn
    \/ WorkerStep
SpecFinetune == Init /\ [][NextFinetune]_vars

(***************************************************************************)
(* Properties                                                              *)
(***************************************************************************)
\* A step of LM.__call__.
IsCall == ncalls' = ncalls + 1

\* The history of instance id, and its most recent entry.
History(id) == lm[id][1].history
LastEntry(id) == History(id)[Len(History(id))]

\* The table of the cached function that serves a model type.
Table(model_type) == IF model_type = "chat" THEN memo.chat ELSE memo.text

\* C1: two consecutive calls with the same model, the same messages and the
\* same effective parameter name/value pairs have equal serialised requests,
\* whatever the order in which the parameters were supplied, so that the
\* second, when both are cache-enabled and the first succeeded, is answered
\* from the memo table without a backend invocation.
C1_KeyIgnoresParameterOrder ==
    [][(/\ IsCall
        /\ last.op = "call"
        /\ last'.model = last.model
        /\ last'.model_type = last.model_type
        /\ last'.messages = last.messages
        /\ last'.kwargs.val = last.kwargs.val)
       => /\ last'.request = last.request
          /\ (last.cache /\ last'.cache /\ last.response # <<>>) => last'.sent = <<>>]_vars

\* C2: a cache-enabled call whose serialised request is already in the memo
\* table of its model type invokes no backend, leaves the table unchanged and
\* returns the outputs of the stored response; and the backend has returned
\* at most once for each cache-enabled request.
BackendReturnedOncePerKey ==
    \A b \in BagToSet(backend) :
        (b.cache = CacheOn /\ b.returned) => CopiesIn(b, backend) = 1

C2_HitSkipsBackend ==
    [][IsCall =>
        /\ (last'.cache /\ last'.request \in DOMAIN Table(last'.model_type))
              => /\ backend' = backend
                 /\ last'.sent = <<>>
                 /\ memo' = memo
                 /\ last'.response = <<Table(last'.model_type)[last'.request]>>
                 /\ last'.ret = <<Outputs(Table(last'.model_type)[last'.request])>>
        /\ BackendReturnedOncePerKey']_vars

C2_Witness ==
    /\ last.op = "call"
    /\ last.cache
    /\ ~last.raised
    /\ last.sent = <<>>
    /\ Len(History(last.id)) = 2

\* C3: when a request is made twice in a row with caching enabled and the
\* backend's response to the first call carries a response cost, the first
\* call's history entry has that cost and the second call's entry has none.
C3_HitHasNoCost ==
    [][(/\ IsCall
        /\ last.op = "call"
        /\ ~last.raised
        /\ last.cache
        /\ last.sent # <<>>
        /\ Cost(last.response[1]) # <<>>
        /\ last'.id = last.id
        /\ last'.cache
        /\ last'.request = last.request
        /\ ~last'.raised)
       => LET h == lm'[last.id][1].history
          IN  /\ h[Len(h) - 1].cost = Cost(last.response[1])
              /\ h[Len(h)].cost = <<>>]_vars

\* C4: a call whose effective cache flag is off (and that supplies a prompt)
\* invokes the backend exactly once, whatever the memo table holds, with
\* no-cache and no-store both set; a cache-enabled call that reaches the
\* backend invokes it with both unset.
C4_BypassInvokesBackendOnce ==
    [][IsCall =>
        /\ ~last'.cache
              => /\ Len(last'.sent) = 1
                 /\ last'.sent[1].cache = [no_cache |-> TRUE, no_store |-> TRUE]
                 /\ backend' = backend (+) SetToBag({last'.sent[1]})
        /\ last'.cache
              => /\ Len(last'.sent) <= 1
                 /\ \A i \in 1..Len(last'.sent) :
                       last'.sent[i].cache = [no_cache |-> FALSE, no_store |-> FALSE]]_vars

C4_Witness ==
    /\ last.op = "call"
    /\ ~last.cache
    /\ last.request \in DOMAIN Table(last.model_type)
    /\ Len(last.sent) = 1
    /\ last.sent[1].returned

\* C5: a call that completes appends exactly one entry, for that call, at the
\* end of its instance's history; a call that fails (the backend raises, the
\* prompt cannot be built, or the outputs or the usage cannot be extracted)
\* leaves every history as it was.
CallFails ==
    \/ last'.response = <<>>
    \/ \E i \in 1..Len(last'.response[1].choices) :
          /\ last'.response[1].choices[i].message = <<>>
          /\ last'.response[1].choices[i].text = <<>>
    \/ last'.response[1].usage = <<>>

C5_OneEntryPerCompletedCall ==
    [][IsCall =>
        IF CallFails
        THEN lm' = lm /\ last'.ret = <<>>
        ELSE /\ \A id \in LMIds \ {last'.id} : lm'[id] = lm[id]
             /\ Len(lm'[last'.id][1].history) = Len(History(last'.id)) + 1
             /\ SubSeq(lm'[last'.id][1].history, 1, Len(History(last'.id)))
                    = History(last'.id)
             /\ LET e == lm'[last'.id][1].history[Len(History(last'.id)) + 1]
                IN  /\ e.prompt = last'.prompt
                    /\ e.messages = last'.messages
                    /\ e.response = last'.response[1]
                    /\ <<e.outputs>> = last'.ret]_vars

C5_Witness ==
    /\ last.op = "call"
    /\ last.raised
    /\ last.sent # <<>>
    /\ ~last.sent[1].returned
    /\ Len(History(last.id)) = 1

\* C6: the parameters recorded in a history entry hold no key that starts
\* with "api_", and hold every other effective parameter with its value, in
\* the same order; the request serialised for that call (the cache key, and
\* what the backend receives) holds all effective parameters, the "api_"
\* ones included.
IsApiKey(k) == SubSeq(Chars(k), 1, 4) = <<"a", "p", "i", "_">>

C6_HistoryHasNoCredentials ==
    [][(IsCall /\ ~last'.raised) =>
        LET e == lm'[last'.id][1].history[Len(lm'[last'.id][1].history)]
            effective == last'.kwargs
            wire == loads(last'.request).kwargs
            plain == {k \in Keys(effective) : ~IsApiKey(k)}
        IN  /\ \A k \in Keys(e.kwargs) : ~IsApiKey(k)
            /\ Keys(e.kwargs) = plain
            /\ \A k \in plain : e.kwargs.val[k] = effective.val[k]
            /\ e.kwargs.ord = SelectSeq(effective.ord, LAMBDA k : k \in plain)
            /\ Keys(lm[last'.id][1].kwargs) \subseteq Keys(effective)
            /\ wire.val = effective.val
            /\ \A i \in 1..Len(last'.sent) : last'.sent[i].args.kwargs.val = effective.val]_vars

C6_Witness ==
    /\ last.op = "call"
    /\ ~last.raised
    /\ last.sent # <<>>
    /\ {"api_key", "api_base"} \subseteq Keys(last.sent[1].args.kwargs)
    /\ Keys(LastEntry(last.id).kwargs) = {"temperature", "max_tokens", "top_p"}

\* A model identifier that a registered provider family matches.
Registered(model) == is_openai_model(model) \/ is_anyscale_model(model)

\* A step of finetune that raises, and one that submits its task.
FinetuneRaises == pending = <<>> /\ last'.op = "finetune" /\ last' # last
FinetuneSubmits == pending = <<>> /\ last'.op = "submit"

\* C7: finetune dispatches a task only when the experimental flag is set and
\* the model is of a registered family; otherwise it raises and changes
\* neither the executors nor the pending dispatch: an AssertionError when the
\* flag is unset, whatever the model, and a ValueError when the flag is set
\* and no family matches.
C7_FinetuneRefuses ==
    [][/\ FinetuneSubmits => (experimental /\ Registered(lm[last'.id][1].model))
       /\ Len(executors') # Len(executors) => FinetuneSubmits
       /\ FinetuneRaises
             => /\ last'.raised
                /\ executors' = executors
                /\ pending' = <<>>
                /\ ~experimental => last'.error = "AssertionError"
                /\ experimental
                      => (last'.error = "ValueError" /\ ~Registered(last'.model))]_vars

C7_Witness ==
    /\ last.op = "finetune"
    /\ last.raised
    /\ ~last.experimental
    /\ ~Registered(last.model)
    /\ last.error = "AssertionError"

\* C8: with the flag set and a registered model, finetune does not raise; it
\* creates one executor with one worker and submits to it one task that
\* carries a new job handle of the model's family, the model, the pairs and
\* the config; it returns that handle and changes no executor in returning;
\* and its return is enabled whatever the state of the task.
C8_FinetuneDispatchesOnce ==
    [][/\ FinetuneRaises => ~(experimental /\ Registered(last'.model))
       /\ FinetuneSubmits
             => LET model == lm[last'.id][1].model
                    job == pending'[1].finetune_job
                IN  /\ pending'[1].id = last'.id
                    /\ \A i \in 1..Len(executors) : executors[i].task.job # job
                    /\ job.cls = IF is_openai_model(model) THEN "FinetuneJobOpenAI"
                                 ELSE "FinetuneJobAnyScale"
                    /\ executors' = Append(executors,
                          [max_workers |-> 1,
                           task |-> [fn |-> IF is_openai_model(model)
                                            THEN "finetune_openai"
                                            ELSE "finetune_anyscale",
                                     job |-> job,
                                     model |-> model,
                                     message_completion_pairs |->
                                         last'.message_completion_pairs,
                                     config |-> last'.config],
                           state |-> "queued"])
       /\ (pending # <<>> /\ pending' = <<>>)
             => /\ last'.op = "finetune"
                /\ ~last'.raised
                /\ last'.ret = pending[1].finetune_job
                /\ executors' = executors
       /\ pending # <<>> => ENABLED FinetuneReturn]_vars

C8_Witness ==
    /\ last.op = "finetune"
    /\ ~last.raised
    /\ \E i \in 1..Len(executors) :
          /\ executors[i].task.job = last.ret
          /\ executors[i].state = "queued"

\* C9: constructing an LM of a model whose identifier contains "o1-" fails
\* exactly when temperature is not 1.0 or max_tokens is below 5000, and
\* constructing an LM of any other model succeeds; a failed construction
\* yields no instance.
O1Models == {"openai/o1-mini", "o1-preview"}

C9_ReasoningModelGuard ==
    last.op = "init"
        => /\ last.raised <=> /\ last.model \in O1Models
                              /\ (last.temperature # 10 \/ last.max_tokens < 5000)
           /\ last.raised <=> lm[last.id] = <<>>
           /\ ~last.raised
                 => /\ lm[last.id][1].model = last.model
                    /\ lm[last.id][1].kwargs.val["temperature"] = last.temperature
                    /\ lm[last.id][1].kwargs.val["max_tokens"] = last.max_tokens

C9_Witness ==
    /\ last.op = "init"
    /\ last.model \in O1Models
    /\ last.temperature = 10
    /\ last.max_tokens = 5000
    /\ lm[last.id] # <<>>

\* C10 as claimed: a call that supplies both a prompt and messages, or
\* neither, causes no backend invocation and no history entry.
BothOrNeither ==
    \/ last.prompt # <<>> /\ last.messagesArg # <<>>
    \/ last.prompt = <<>> /\ last.messagesArg = <<>>

C10_ExactlyOneAccepted ==
    (last.op = "call" /\ BothOrNeither) => (last.sent = <<>> /\ last.raised)

\* C10 as amended: __call__ accepts every combination of prompt and
\* messages.  A non-empty messages list is what is serialised, sent and
\* recorded, with or without a prompt; otherwise (messages None or empty) it
\* is the single message [user: prompt], its content None when no prompt is
\* supplied.  On a chat model every such call reaches the completion
\* backend unless the memo table answers it, and a call that completes
\* records its prompt and these messages in the history.
ExpectedMessages ==
    IF last.messagesArg \in {<<>>, <<<<>>>>}
    THEN <<[role |-> "user", content |-> last.prompt]>>
    ELSE last.messagesArg[1]

C10_MessagesOrPrompt ==
    last.op = "call"
        => /\ loads(last.request).messages = ExpectedMessages
           /\ \A i \in 1..Len(last.sent) : last.sent[i].args.messages = ExpectedMessages
           /\ (last.model_type = "chat" /\ ~last.cache) => Len(last.sent) = 1
           /\ (last.model_type = "chat" /\ last.sent = <<>>) => last.response # <<>>
           /\ ~last.raised
                 => /\ LastEntry(last.id).messages = ExpectedMessages
                    /\ LastEntry(last.id).prompt = last.prompt

C10_Witness ==
    /\ last.op = "call"
    /\ last.prompt # <<>>
    /\ last.messagesArg # <<>>
    /\ last.messages = last.messagesArg[1]
    /\ last.sent # <<>>
    /\ ~last.raised

(***************************************************************************)
(* SpecMerge: calls whose keywords collide with the instance defaults and  *)
(* carry the cache keyword.                                                *)
(***************************************************************************)
KeywordArgs == {<<>>,
                <<<<"temperature", 7>>>>,
                <<<<"cache", FALSE>>, <<"temperature", 7>>>>,
                <<<<"top_p", 9>>, <<"cache", TRUE>>>>,
                <<<<"max_tokens", 50>>, <<"api_base", 5>>>>}
MergeOutcomes == {BackendRaises, Returns(RChat)}

CallMerge ==
    /\ ncalls < MaxCalls
    /\ \E id \in FirstLM, keywords \in KeywordArgs, outcome \in MergeOutcomes :
           CallKeywords(id, <<"2+2=">>, <<>>, keywords, outcome)

NextMerge == NewDefault \/ CallMerge
SpecMerge == Init /\ [][NextMerge]_vars

\* C11: the effective parameters of a call are the instance defaults overlaid
\* by the call's overrides (an override wins on a colliding key, every other
\* default is kept); the cache keyword, or the instance's flag when it is not
\* given, selects the cached or the uncached route and is no key of the
\* effective parameters, of the serialised request, of what the backend
\* receives or of the history entry; and the call leaves the instance's
\* model, model type, cache flag and default parameters as constructed.
DefaultsAsConstructed ==
    \A id \in LMIds :
        lm[id] # <<>>
            => /\ lm[id][1].model = "openai/gpt-4o"
               /\ lm[id][1].kwargs.ord[1] = "temperature"
               /\ lm[id][1].kwargs.ord[2] = "max_tokens"
               /\ lm[id][1].kwargs.val["temperature"] = 0
               /\ lm[id][1].kwargs.val["max_tokens"] = 1000
               /\ Keys(lm[id][1].kwargs) \subseteq {"temperature", "max_tokens", "api_base"}
               /\ "api_base" \in Keys(lm[id][1].kwargs) => lm[id][1].kwargs.val["api_base"] = 2

C11_OverridesWinDefaultsKept ==
    [][IsCall =>
        LET self == lm[last'.id][1]
            after == lm'[last'.id][1]
            given == last'.overrides
            names == {given[i][1] : i \in 1..Len(given)}
            effective == last'.kwargs
        IN  /\ Keys(effective) = Keys(self.kwargs) \cup names
            /\ \A i \in 1..Len(given) : effective.val[given[i][1]] = given[i][2]
            /\ \A k \in Keys(self.kwargs) \ names : effective.val[k] = self.kwargs.val[k]
            /\ last'.cache = IF last'.cacheArg = <<>> THEN self.cache ELSE last'.cacheArg[1]
            /\ \A i \in 1..Len(last'.sent) :
                  /\ last'.sent[i].cache.no_cache = ~last'.cache
                  /\ last'.sent[i].cache.no_store = ~last'.cache
                  /\ "cache" \notin Keys(last'.sent[i].args.kwargs)
                  /\ last'.sent[i].args.kwargs.val = effective.val
            /\ ~last'.cache => last'.sent # <<>>
            /\ "cache" \notin Keys(effective)
            /\ \A i \in 1..Len(last'.request) : last'.request[i][1] # "cache"
            /\ ~last'.raised
                  => "cache" \notin Keys(after.history[Len(after.history)].kwargs)
            /\ after.model = self.model
            /\ after.model_type = self.model_type
            /\ after.cache = self.cache
            /\ after.kwargs = self.kwargs
            /\ DefaultsAsConstructed']_vars

C11_Witness ==
    /\ last.op = "call"
    /\ ~last.raised
    /\ last.cacheArg = <<FALSE>>
    /\ lm[last.id][1].cache
    /\ last.kwargs.val["temperature"] = 7
    /\ lm[last.id][1].kwargs.val["temperature"] = 0
    /\ last.kwargs.val["max_tokens"] = 1000
    /\ LastEntry(last.id).kwargs.val["temperature"] = 7

(***************************************************************************)
(* SpecThreads: threads that call one instance concurrently, and calls     *)
(* made once every thread has left __call__.                               *)
(***************************************************************************)
ThreadPrompts == {<<"2+2=">>, <<"3+3=">>}
ThreadOutcomes == {BackendRaises, Returns(RChat), Returns(RNoUsage)}

ThreadCacheArgs == {<<>>, <<FALSE>>}

\* An instance of either model type with the cache on.
NewThreaded ==
    \E id \in FirstLM, model_type \in ModelTypes :
        New(id, "openai/gpt-4o", model_type, 0, 1000, TRUE, <<>>)

ThreadStep ==
    \E t \in Threads :
        \/ \E id \in FirstLM, prompt \in ThreadPrompts, cacheArg \in ThreadCacheArgs :
              ThreadBegin(t, id, prompt, cacheArg)
        \/ \E outcome \in ThreadOutcomes : ThreadBackend(t, outcome)
        \/ ThreadFinish(t)

Left == {t \in Threads : threads[t].pc \in {"done", "failed"}}

CallAfter ==
    /\ Left = Threads
    /\ ncalls < MaxAfterCalls
    /\ \E id \in FirstLM, prompt \in ThreadPrompts, outcome \in MergeOutcomes :
           Call(id, prompt, <<>>, <<>>, <<>>, outcome)

NextThreads == NewThreaded \/ ThreadStep \/ CallAfter
SpecThreads == Init /\ [][NextThreads]_vars

\* Thread t appends its entry in this step.
Completes(t) == threads[t].pc = "got" /\ threads'[t].pc = "done"
\* The response thread t holds lets lines 64-70 build an entry.
WillComplete(t) ==
    /\ threads[t].pc = "got"
    /\ ~OutputsRaise(threads[t].response[1])
    /\ ~UsageRaises(threads[t].response[1])
ThreadEntry(t) ==
    Entry(threads[t].prompt, threads[t].messages, threads[t].kwargs,
          threads[t].response[1])

\* C12 as stated: the entries of concurrent calls are in the order in which
\* the calls obtained their responses, so that no call appends its entry
\* while a call that obtained its response earlier has still to append.
C12_EntriesInResponseOrder ==
    [][\A t \in Threads :
          Completes(t)
            => \A u \in Threads \ {t} :
                  WillComplete(u) => threads[u].obtained > threads[t].obtained]_vars

\* C12: when several threads call one instance, every call that completes
\* appends exactly one entry at the end of the history in the step in which
\* it completes, no other step of a thread changes the history (no entry is
\* lost, duplicated or moved), and the history holds one entry per completed
\* call: the entries are in the order in which the calls reached the append,
\* which is neither the order of issue nor the order of the responses.
C12_EntriesInCompletionOrder ==
    [][/\ \A t \in Threads :
            Completes(t)
              => History(threads[t].id)' =
                     Append(History(threads[t].id), ThreadEntry(t))
       /\ (~IsCall /\ \A t \in Threads : ~Completes(t))
            => \A id \in LMIds : lm[id] # <<>> => lm'[id] = lm[id]
       /\ \A id \in LMIds :
            (lm'[id] # <<>> /\ ncalls' = 0)
              => Len(lm'[id][1].history) =
                     Cardinality({t \in Threads : threads'[t].pc = "done"})]_vars

C12_Witness ==
    \E t, u \in Threads :
        /\ threads[t].pc = "done" /\ threads[u].pc = "done"
        /\ threads[t].issued < threads[u].issued
        /\ threads[t].obtained < threads[u].obtained
        /\ threads[t].prompt # threads[u].prompt
        /\ History(threads[t].id)[1].prompt = threads[u].prompt
        /\ History(threads[t].id)[2].prompt = threads[t].prompt

\* The backend invocation of a cache-enabled call of thread record th, as
\* the backend receives it, returned or failed.
CachedInvocation(th, returned) ==
    [fn |-> IF th.model_type = "chat" THEN "completion" ELSE "text_completion",
     cache |-> CacheOn, args |-> loads(th.request), returned |-> returned]
\* The cache-enabled calls with the request of th that are past the backend.
PastBackend(ths, th) ==
    {u \in Threads : /\ ths[u].cache
                     /\ ths[u].request = th.request
                     /\ ths[u].pc \in {"got", "done", "failed"}}

\* C13 as stated: once every one of the concurrent cache-enabled calls has
\* completed or failed, the memo table holds an entry for their request.
C13_EntryAfterAllCalls ==
    Left = Threads
        => \A t \in Threads :
              threads[t].cache
                => threads[t].request \in DOMAIN Table(threads[t].model_type)

\* C13: under every interleaving of concurrent cache-enabled calls with one
\* serialised request, every step invokes the backend at most once and only
\* for a call that is at its backend invocation and leaves it (each caller at
\* most once, at most k in all); a call that holds a response implies a
\* returned backend invocation of that request (at least one), and then the
\* memo table holds one entry for the request, the response one of the calls
\* obtained; and provided one of the invocations returned, every
\* cache-enabled call with that request issued after all have completed is
\* served that entry without a backend invocation.
C13_MemoUnderConcurrency ==
    [][/\ BagCardinality(backend') <= BagCardinality(backend) + 1
       /\ (backend' # backend /\ ~IsCall)
            => \E t \in Threads : /\ threads[t].pc = "backend"
                                  /\ threads'[t].pc # "backend"
                                  /\ \A u \in Threads \ {t} : threads'[u] = threads[u]
       /\ ncalls' = 0
            => \A t \in Threads :
                  LET th == threads'[t]
                      table == IF th.model_type = "chat" THEN memo'.chat ELSE memo'.text
                  IN  /\ (th.cache /\ th.pc \in {"got", "done", "failed"})
                        => CopiesIn(CachedInvocation(th, TRUE), backend')
                             + CopiesIn(CachedInvocation(th, FALSE), backend')
                             <= Cardinality(PastBackend(threads', th))
                      /\ (th.cache /\ th.response # <<>>)
                        => /\ BagIn(CachedInvocation(th, TRUE), backend')
                           /\ th.request \in DOMAIN table
                           /\ \E u \in Threads :
                                 /\ threads'[u].request = th.request
                                 /\ threads'[u].response = <<table[th.request]>>
       /\ (/\ IsCall
           /\ last'.cache
           /\ BagIn([fn |-> IF last'.model_type = "chat" THEN "completion"
                            ELSE "text_completion",
                     cache |-> CacheOn, args |-> loads(last'.request),
                     returned |-> TRUE], backend))
            => /\ last'.sent = <<>>
               /\ backend' = backend
               /\ memo' = memo
               /\ last'.response = <<Table(last'.model_type)[last'.request]>>]_vars

C13_Witness ==
    /\ last.op = "call"
    /\ last.cache
    /\ last.sent = <<>>
    /\ \A t \in Threads : threads[t].cache /\ threads[t].request = last.request
    /\ CopiesIn([fn |-> "completion", cache |-> CacheOn, args |-> loads(last.request),
                 returned |-> TRUE], backend) = NThreads

(***************************************************************************)
(* SpecOps: every public operation on one instance.                        *)
(***************************************************************************)
OpsModels == {"openai/gpt-4o", "ollama/o1"}
OpsOutcomes == {BackendRaises, Returns(RChat)}
InspectCounts == {0, 1, 2}

NewOps ==
    \E id \in FirstLM, model \in OpsModels :
        New(id, model, "chat", O1Temperature, O1MinTokens, TRUE, <<>>)

CallOps ==
    /\ ncalls < MaxOpsCalls
    /\ \E id \in FirstLM, prompt \in Prompts, cacheArg \in ThreadCacheArgs,
          outcome \in OpsOutcomes :
           Call(id, prompt, <<>>, cacheArg, <<>>, outcome)

InspectAny == \E id \in FirstLM, n \in InspectCounts : InspectHistory(id, n)
LaunchAny == \E id \in FirstLM : Launch(id)
KillAny == \E id \in FirstLM : Kill(id)

FinetuneOps ==
    /\ Len(executors) < MaxOpsFinetunes
    /\ \E id \in FirstLM : FinetuneCall(id, <<>>, EmptyDict)

NextOps ==
    \/ NewOps
    \/ CallOps
    \/ InspectAny
    \/ LaunchAny
    \/ KillAny
    \/ SetExperimentalAny
    \/ FinetuneOps
    \/ FinetuneReturn
    \/ WorkerStep
SpecOps == Init /\ [][NextOps]_vars

IsPrefix(a, b) == Len(a) <= Len(b) /\ SubSeq(b, 1, Len(a)) = a

\* C14: across every public operation (a call with or without the cache, a
\* failing call, inspect_history, launch, kill, finetune and its background
\* task) the history of an instance before the step is a prefix of the
\* history after it, and it is longer after the step, by one entry, exactly
\* when the step is a call that returns.
C14_HistoryAppendOnly ==
    [][\A id \in LMIds :
          lm[id] # <<>>
            => /\ lm'[id] # <<>>
               /\ IsPrefix(lm[id][1].history, lm'[id][1].history)
               /\ (IsCall /\ last'.id = id /\ last'.ret # <<>>)
                    => Len(lm'[id][1].history) = Len(lm[id][1].history) + 1
               /\ ~(IsCall /\ last'.id = id /\ last'.ret # <<>>)
                    => lm'[id][1].history = lm[id][1].history]_vars

C14_Witness ==
    /\ last.op \in {"inspect_history", "launch", "kill", "finetune"}
    /\ Len(History(last.id)) = 1
    /\ ncalls = 2
    /\ \E inv \in BagToSet(backend) : ~inv.returned
    /\ executors # <<>>

\* C17: inspect_history(count) renders exactly the min(count, len(history))
\* most recent entries, oldest first, for every count >= 0, so that count = 0
\* renders no entry.
MostRecent(history, count) ==
    LET shown == IF count < Len(history) THEN count ELSE Len(history)
    IN  SubSeq(history, Len(history) - shown + 1, Len(history))

C17_RendersMostRecent ==
    (last.op = "inspect_history" /\ ~last.raised)
        => /\ Len(last.shown) = Len(MostRecent(History(last.id), last.n))
           /\ \A i \in 1..Len(last.shown) :
                 last.shown[i] = Render(MostRecent(History(last.id), last.n)[i])

\* A step of an executor's worker thread, and the state of the task that a
\* job handle belongs to.
IsWorkerStep == executors' # executors /\ Len(executors') = Len(executors)
TaskStates(job) ==
    {executors[i].state : i \in {j \in 1..Len(executors) : executors[j].task.job = job}}

\* C16: a failure of the background task is never raised to the caller of
\* finetune and does not prevent or alter the return of the job handle: a
\* step of the worker, failing or not, changes nothing but the state of its
\* task; while a dispatch has yet to return, its return is enabled whether
\* the task is queued, running, done or failed, and the return raises
\* nothing and yields the handle of the submitted task; the only exceptions
\* finetune raises are the refusals before the dispatch.
C16_TaskFailureStaysInBackground ==
    [][/\ IsWorkerStep
            => UNCHANGED <<lm, memo, backend, experimental, pending, last, ncalls>>
       /\ pending # <<>> => ENABLED FinetuneReturn
       /\ (pending # <<>> /\ pending' = <<>>)
            => /\ ~last'.raised
               /\ last'.ret = pending[1].finetune_job
               /\ TaskStates(last'.ret) # {}
               /\ executors' = executors
       /\ (last'.op = "finetune" /\ last'.raised /\ last' # last)
            => /\ pending = <<>>
               /\ executors' = executors
               /\ last'.error \in {"AssertionError", "ValueError"}]_vars

C16_Witness ==
    /\ last.op = "finetune"
    /\ ~last.raised
    /\ TaskStates(last.ret) = {"failed"}

\* The invocation of a call's request as the backend receives it.
Invocation(model_type, directive, request, returned) ==
    [fn |-> IF model_type = "chat" THEN "completion" ELSE "text_completion",
     cache |-> directive, args |-> loads(request), returned |-> returned]

\* Every key of the memo tables was returned by a cache-enabled invocation
\* among those of the bag.
StoredKeysWereReturned(tables, invocations) ==
    /\ \A request \in DOMAIN tables.chat :
          BagIn(Invocation("chat", CacheOn, request, TRUE), invocations)
    /\ \A request \in DOMAIN tables.text :
          BagIn(Invocation("text", CacheOn, request, TRUE), invocations)

\* C18: a cache-enabled call whose backend invocation fails raises, leaves
\* both memo tables and the history unchanged, and the next cache-enabled
\* call with the same serialised request invokes the backend again; no
\* failed invocation ever puts a key in a table.
C18_FailedCallStoresNothing ==
    [][IsCall =>
        /\ (last'.cache /\ last'.sent # <<>> /\ ~last'.sent[1].returned)
              => /\ memo' = memo
                 /\ lm' = lm
                 /\ last'.raised
                 /\ last'.response = <<>>
        /\ (/\ last.op = "call"
            /\ last.cache
            /\ last.sent # <<>>
            /\ ~last.sent[1].returned
            /\ last'.cache
            /\ last'.model_type = last.model_type
            /\ last'.request = last.request)
              => /\ Len(last'.sent) = 1
                 /\ last'.sent[1].args = last.sent[1].args
                 /\ backend' = backend (+) SetToBag({last'.sent[1]})
        /\ StoredKeysWereReturned(memo', backend')]_vars

C18_Witness ==
    /\ last.op = "call"
    /\ last.cache
    /\ ~last.raised
    /\ Len(last.sent) = 1
    /\ BagIn(Invocation(last.model_type, CacheOn, last.request, FALSE), backend)
    /\ last.request \in DOMAIN Table(last.model_type)

\* C19: a call whose effective cache flag is off neither reads nor writes the
\* memo tables: it invokes the backend through the uncached function even
\* when its key is memoized, what it returns is the backend's response and
\* not the stored one, and both tables are the same after it; so a
\* cache-enabled call whose key was requested only with the cache off finds
\* no entry and invokes the backend.
C19_BypassLeavesMemoAlone ==
    [][IsCall =>
        /\ ~last'.cache
              => /\ memo' = memo
                 /\ last'.sent # <<>>
                 /\ last'.sent[1] = Invocation(last'.model_type, CacheOff, last'.request,
                                               last'.sent[1].returned)
                 /\ last'.sent[1].returned
                       => \E outcome \in Outcomes :
                             /\ ~outcome.raises
                             /\ last'.response = <<outcome.response>>
        /\ (/\ last'.cache
            /\ ~BagIn(Invocation(last'.model_type, CacheOn, last'.request, TRUE), backend))
              => /\ last'.request \notin DOMAIN Table(last'.model_type)
                 /\ Len(last'.sent) = 1
                 /\ last'.sent[1].cache = CacheOn]_vars

C19_Witness ==
    /\ last.op = "call"
    /\ last.cache
    /\ Len(last.sent) = 1
    /\ BagIn(Invocation(last.model_type, CacheOff, last.request, TRUE), backend)
    /\ ~BagIn(Invocation(last.model_type, CacheOn, last.request, FALSE), backend)
    /\ CopiesIn(Invocation(last.model_type, CacheOn, last.request, TRUE), backend) = 1

(***************************************************************************)
(* SpecShared: two instances of one model, of either model type, in one    *)
(* process.                                                                *)
(***************************************************************************)
NewShared ==
    \E id \in LMIds, model_type \in ModelTypes :
        New(id, "openai/gpt-4o", model_type, 0, 1000, TRUE, <<>>)

CallShared ==
    /\ ncalls < MaxSharedCalls
    /\ \E id \in LMIds, cacheArg \in ThreadCacheArgs, outcome \in Outcomes :
           Call(id, <<"2+2=">>, <<>>, cacheArg, <<>>, outcome)

NextShared == NewShared \/ CallShared
SpecShared == Init /\ [][NextShared]_vars

\* C20: the memo tables belong to the process and to a model type, the
\* history to an instance: a cache-enabled call whose request a cache-enabled
\* invocation of its model type has returned for (made through this instance
\* or another) invokes no backend and appends one entry to its own history;
\* a cache-enabled call whose request no invocation of its own model type
\* has returned for invokes its own backend operation once, whatever the
\* other type's table holds, and leaves the other type's table unchanged; no
\* call changes another instance.
C20_SharedMemoOwnHistory ==
    [][IsCall =>
        LET id == last'.id
            own == last'.model_type
            served == BagIn(Invocation(own, CacheOn, last'.request, TRUE), backend)
        IN  /\ \A other \in LMIds \ {id} : lm'[other] = lm[other]
            /\ (last'.cache /\ served)
                  => /\ last'.sent = <<>>
                     /\ backend' = backend
                     /\ memo' = memo
                     /\ ~last'.raised
                          => lm'[id][1].history =
                                Append(lm[id][1].history,
                                       Entry(last'.prompt, last'.messages, last'.kwargs,
                                             Table(own)[last'.request]))
            /\ (last'.cache /\ ~served)
                  => /\ Len(last'.sent) = 1
                     /\ last'.sent[1].fn = IF own = "chat" THEN "completion"
                                           ELSE "text_completion"
            /\ own = "chat" => memo'.text = memo.text
            /\ own = "text" => memo'.chat = memo.chat]_vars

C20_Witness ==
    /\ last.op = "call"
    /\ last.id = "lm2"
    /\ last.cache
    /\ last.sent = <<>>
    /\ lm["lm1"] # <<>>
    /\ lm["lm1"][1].model_type = lm["lm2"][1].model_type
    /\ Len(History("lm1")) = 1
    /\ Len(History("lm2")) = 1
    /\ BagCardinality(backend) = 1

(***************************************************************************)
(* SpecCodec: calls on instances of two models, with sequence-valued       *)
(* parameters given as lists and as tuples.                                *)
(***************************************************************************)
CodecModels == {"openai/gpt-4o", "anyscale/llama"}
CodecOverrides ==
    {<<>>,
     <<<<"top_p", 9>>>>,
     <<<<"stop", [py |-> "list", items |-> <<"a">>]>>>>,
     <<<<"stop", [py |-> "tuple", items |-> <<"a">>]>>>>,
     <<<<"stop", [py |-> "list", items |-> <<"a", "b">>]>>>>}

NewCodec ==
    \E id \in LMIds, model \in CodecModels :
        New(id, model, "chat", 0, 1000, TRUE, <<>>)

CallCodec ==
    /\ ncalls < MaxCodecCalls
    /\ \E id \in LMIds, prompt \in ThreadPrompts, overrides \in CodecOverrides,
          outcome \in MergeOutcomes :
           Call(id, prompt, <<>>, <<>>, overrides, outcome)

NextCodec == NewCodec \/ CallCodec
SpecCodec == Init /\ [][NextCodec]_vars

\* The model, the messages and the effective parameters of a call with the
\* parameter values as JSON writes them.
Encoded(call) ==
    [model |-> call.model,
     messages |-> call.messages,
     ord |-> call.kwargs.ord,
     val |-> [k \in Keys(call.kwargs) |-> JsonValue(k, call.kwargs.val[k])]]

\* C15 as stated: two consecutive calls on one model type that differ in the
\* model, in a message or in an effective parameter name or value have
\* different serialised requests.
C15_RequestInjective ==
    [][(/\ IsCall
        /\ last.op = "call"
        /\ last'.model_type = last.model_type
        /\ \/ last'.model # last.model
           \/ last'.messages # last.messages
           \/ last'.kwargs # last.kwargs)
       => last'.request # last.request]_vars

\* C15: two consecutive calls on one model type whose model, messages or
\* effective parameters differ once the parameter values are written as JSON
\* (a tuple and a list of the same items being one JSON array) have
\* different serialised requests, so the second is not answered from the
\* first's memo entry; a call answered from the memo table gets the response
\* of an invocation that sent exactly what the call's own request decodes
\* to; and two calls that differ only in a value's Python type have the same
\* request.
C15_RequestInjectiveOnEncoding ==
    [][(IsCall /\ last.op = "call" /\ last'.model_type = last.model_type)
       => /\ Encoded(last') # Encoded(last)
               => /\ last'.request # last.request
                  /\ (last'.cache /\ last'.request \notin DOMAIN Table(last'.model_type))
                        => last'.sent # <<>>
          /\ Encoded(last') = Encoded(last) => last'.request = last.request
          /\ (last'.cache /\ last'.sent = <<>>)
               => /\ BagIn(Invocation(last'.model_type, CacheOn, last'.request, TRUE),
                           backend)
                  /\ loads(last'.request).model = last'.model
                  /\ loads(last'.request).messages = last'.messages
                  /\ Encoded(loads(last'.request)) = Encoded(last')]_vars

C15_Witness ==
    /\ last.op = "call"
    /\ last.cache
    /\ last.sent = <<>>
    /\ ~last.raised
    /\ "stop" \in Keys(last.kwargs)
    /\ last.kwargs.val["stop"].py = "tuple"
    /\ Len(History(last.id)) = 2
    /\ History(last.id)[1].kwargs.val["stop"].py = "list"
    /\ History(last.id)[1].response = History(last.id)[2].response

====
